---- MODULE Spec2Model ----
(***************************************************************************)
(* Model of the two-axis motion planner of src/src/js/simulator.js:       *)
(* junction speeds (backward pass), per-segment trapezoid synthesis,      *)
(* simulate, timeEstimation and getPositionFromTime.                      *)
(*                                                                         *)
(* JavaScript numbers are modelled as fixed-point integers with Scale     *)
(* units per 1.0, extended by the three IEEE specials Inf, NegInf and NaN *)
(* (the code divides by zero vector components and by zero speed sums).   *)
(* Every arithmetic step of the source is one F-operator here, rounding   *)
(* down to the fixed-point grid.                                           *)
(***************************************************************************)
EXTENDS Integers, Sequences, FiniteSets, TLC

\* ------------------------------------------------------------------ bounds
\* Waypoint x coordinates are the integers 0..MaxX.
MaxX == 2
\* Longest input path (number of waypoints).
MaxPathLen == 3

\* ------------------------------------------------- numbers (IEEE doubles)
\* fixed-point resolution: Scale units per 1.0
Scale == 10 ^ 3
Inf == 2 * (10 ^ 9)
NegInf == 0 - Inf
NaN == NegInf - 1

Num(n) == n * Scale
Two == 2 * Scale
Half == Scale \div 2

IsNaN(x) == x = NaN
IsFin(x) == x # NaN /\ x # Inf /\ x # NegInf

\* -1, 0 or 1; x is not NaN
Sgn(x) == IF x > 0 THEN 1 ELSE IF x < 0 THEN 0 - 1 ELSE 0

SignedInf(s) == IF s < 0 THEN NegInf ELSE Inf

FNeg(x) ==
  IF x = NaN THEN NaN
  ELSE IF x = Inf THEN NegInf
  ELSE IF x = NegInf THEN Inf
  ELSE 0 - x

FAbs(x) ==
  IF x = NaN THEN NaN
  ELSE IF x = Inf \/ x = NegInf THEN Inf
  ELSE IF x < 0 THEN 0 - x ELSE x

FAdd(a, b) ==
  IF a = NaN \/ b = NaN THEN NaN
  ELSE IF a = Inf THEN (IF b = NegInf THEN NaN ELSE Inf)
  ELSE IF a = NegInf THEN (IF b = Inf THEN NaN ELSE NegInf)
  ELSE IF b = Inf \/ b = NegInf THEN b
  ELSE a + b

FSub(a, b) == FAdd(a, FNeg(b))

FMul(a, b) ==
  IF a = NaN \/ b = NaN THEN NaN
  ELSE IF ~IsFin(a) \/ ~IsFin(b)
    THEN (IF a = 0 \/ b = 0 THEN NaN ELSE SignedInf(Sgn(a) * Sgn(b)))
  ELSE (a * b) \div Scale

\* x / 0 is +-Infinity (the sign of a zero divisor is not tracked: every
\* division by a possibly-zero value in the source is under Math.abs or has
\* a non-negative divisor), 0 / 0 is NaN
FDiv(a, b) ==
  IF a = NaN \/ b = NaN THEN NaN
  ELSE IF ~IsFin(a) THEN (IF ~IsFin(b) THEN NaN
                          ELSE SignedInf(Sgn(a) * (IF b < 0 THEN 0 - 1 ELSE 1)))
  ELSE IF ~IsFin(b) THEN 0
  ELSE IF b = 0 THEN (IF a = 0 THEN NaN ELSE SignedInf(Sgn(a)))
  ELSE IF b < 0 THEN ((0 - a) * Scale) \div (0 - b)
  ELSE (a * Scale) \div b

RECURSIVE ISqrtIter(_, _, _)
ISqrtIter(n, lo, hi) ==
  IF lo >= hi THEN lo
  ELSE LET mid == (lo + hi + 1) \div 2
       IN  IF mid * mid <= n THEN ISqrtIter(n, mid, hi)
           ELSE ISqrtIter(n, lo, mid - 1)

\* floor of the square root of the natural number n
ISqrt(n) == ISqrtIter(n, 0, IF n < 46340 THEN n ELSE 46340)

\* Math.sqrt: NaN for negative arguments
FSqrt(x) ==
  IF x = NaN \/ x = NegInf THEN NaN
  ELSE IF x = Inf THEN Inf
  ELSE IF x < 0 THEN NaN
  ELSE IF x <= 2 * (10 ^ 6) THEN ISqrt(x * Scale)
  ELSE ISqrt(x \div 10) * ISqrt(10 * Scale)

\* comparisons: false as soon as one side is NaN
FLt(a, b) == a # NaN /\ b # NaN /\ a < b
FGt(a, b) == FLt(b, a)
FGe(a, b) == a # NaN /\ b # NaN /\ a >= b

\* Math.min / Math.max: NaN as soon as one argument is NaN
FMin(a, b) == IF a = NaN \/ b = NaN THEN NaN ELSE IF a < b THEN a ELSE b
FMax(a, b) == IF a = NaN \/ b = NaN THEN NaN ELSE IF a > b THEN a ELSE b

\* JavaScript's  x || dflt  on numbers: 0 and NaN are falsy
OrElse(x, dflt) == IF x = 0 \/ x = NaN THEN dflt ELSE x

\* ------------------------------------------------------------------ Vec2
Vec(x, y) == [x |-> x, y |-> y]
VAdd(a, b) == Vec(FAdd(a.x, b.x), FAdd(a.y, b.y))
VSub(a, b) == Vec(FSub(a.x, b.x), FSub(a.y, b.y))
VScale(a, s) == Vec(FMul(a.x, s), FMul(a.y, s))
\* mag(): sqrt(x*x + y*y); for ordinary numbers the sum of squares is taken
\* at full precision before the root
VMag(a) ==
  IF IsFin(a.x) /\ IsFin(a.y) THEN ISqrt(a.x * a.x + a.y * a.y)
  ELSE FSqrt(FAdd(FMul(a.x, a.x), FMul(a.y, a.y)))
\* unit(): the zero vector for the zero vector
VUnit(a) ==
  LET m == VMag(a)
  IN  IF m = 0 THEN Vec(0, 0) ELSE Vec(FDiv(a.x, m), FDiv(a.y, m))

\* ----------------------------------------------------------------- utils
\* tolerance of the numeric helpers: the smallest positive fixed-point step
Epsilon == 1

\* isZero: values below the tolerance collapse to exactly 0, others pass
isZero(x) == IF FLt(FAbs(x), Epsilon) THEN 0 ELSE x

\* approxGreateOrEqual(a, b): a >= b - eps * max(1, |a|, |b|)
approxGreateOrEqual(a, b) ==
  FGe(a, FSub(b, FMul(Epsilon, FMax(Num(1), FMax(FAbs(a), FAbs(b))))))

\* ------------------------------------------------------------- simulator
\* The source's "infinite" stand-in 1000000000 exceeds the 32-bit integers of
\* TLC once scaled; the model uses 100.0, which is above every
\* speed and acceleration the bounded inputs can produce.
Sentinel == 100 * Scale

\* The source compares the junction cosine with +-0.999999.  Unit vectors
\* carry a rounding error of a few fixed-point steps here, so the limit is
\* widened to 0.995; no two distinct directions of the bounded coordinate
\* grid are that close.
CosLimit == Scale - (Scale \div 200)

maxForcePerDirection(maxForceX, maxForceY, unitVector) ==
  FMin(OrElse(FAbs(FDiv(maxForceX, unitVector.x)), Sentinel),
       OrElse(FAbs(FDiv(maxForceY, unitVector.y)), Sentinel))

calculateMaxJunctionSpeed(v1, v2, settings) ==
  LET uV1 == VUnit(v1)
      uV2 == VUnit(v2)
      junction_cos_theta ==
        FSub(FMul(FNeg(uV1.x), uV2.x), FMul(uV1.y, uV2.y))
      junction_unit_vec == VUnit(VSub(uV2, uV1))
      junction_acceleration ==
        maxForcePerDirection(settings.accelerationX, settings.accelerationY,
                             junction_unit_vec)
      sin_theta_d2 == FSqrt(FMul(Half, FSub(Num(1), junction_cos_theta)))
  IN  IF FGt(junction_cos_theta, CosLimit)
        THEN settings.minimumJunctionSpeed
      ELSE IF FLt(junction_cos_theta, 0 - CosLimit)
        THEN Sentinel
      ELSE FMax(FMul(settings.minimumJunctionSpeed, settings.minimumJunctionSpeed),
                FSqrt(FDiv(FMul(FMul(junction_acceleration,
                                     settings.junctionDeviation),
                                sin_theta_d2),
                           FSub(Num(1), sin_theta_d2))))

\* path is non-empty; the result has one record per waypoint
calculateMaximumJunctionSpeeds(path, settings, start) ==
  [i \in 1..Len(path) |->
     IF i = Len(path)
       THEN [position |-> path[i].position, maxJunctionSpeed |-> 0]
     ELSE LET p0 == IF i = 1 THEN start ELSE path[i - 1].position
              p1 == path[i].position
              p2 == path[i + 1].position
          IN  [position |-> p1,
               maxJunctionSpeed |->
                 isZero(calculateMaxJunctionSpeed(VSub(p1, p0), VSub(p2, p1),
                                                  settings))]]

calculateSpeedIncrease(startPosition, startSpeed, targetPosition, settings) ==
  LET startToTargetVector == VSub(targetPosition, startPosition)
      startToTargetDirection == VUnit(startToTargetVector)
      acceleration ==
        maxForcePerDirection(settings.accelerationX, settings.accelerationY,
                             startToTargetDirection)
      displacement == VMag(startToTargetVector)
  IN  FAbs(FSub(FSqrt(FAdd(FMul(startSpeed, startSpeed),
                           FMul(FMul(Two, acceleration), displacement))),
                startSpeed))

canReachTargetSpeed(startPosition, desiredStartSpeed, targetPosition, targetSpeed, settings) ==
  LET speedIncrease ==
        calculateSpeedIncrease(startPosition, desiredStartSpeed,
                               targetPosition, settings)
  IN  approxGreateOrEqual(speedIncrease,
                          FAbs(FSub(desiredStartSpeed, targetSpeed)))

calculateMaxSpeedToReachTargetSpeed(startPosition, targetPosition, targetSpeed, settings) ==
  LET speedIncrease ==
        calculateSpeedIncrease(targetPosition, targetSpeed, startPosition,
                               settings)
  IN  FAdd(targetSpeed, speedIncrease)

junctionSpeedPoint(position, finalSpeed, maxSpeed) ==
  [position |-> position, finalSpeed |-> finalSpeed, maxSpeed |-> maxSpeed]

\* lastJunctionSpeedPoint with the speed arguments of junctionSpeedPoint in
\* the wrong order
lastJunctionSpeedPoint_swapped(path, maxJunctionSpeeds) ==
  junctionSpeedPoint(maxJunctionSpeeds[Len(maxJunctionSpeeds)].position,
                     path[Len(path)].desiredSpeed,
                     maxJunctionSpeeds[Len(maxJunctionSpeeds)].maxJunctionSpeed)

\* first push of calculateJunctionSpeeds: the record of the last waypoint
lastJunctionSpeedPoint(path, maxJunctionSpeeds) ==
  junctionSpeedPoint(maxJunctionSpeeds[Len(maxJunctionSpeeds)].position,
                     maxJunctionSpeeds[Len(maxJunctionSpeeds)].maxJunctionSpeed,
                     path[Len(path)].desiredSpeed)

\* cruise cap of the backward pass for waypoint i, given the record `next`
segmentMaxSpeed(path, settings, current, next, i) ==
  FMin(path[i].desiredSpeed,
       maxForcePerDirection(settings.maximumSpeedX, settings.maximumSpeedY,
                            VUnit(VSub(next.position, current.position))))

\* which branch of the backward pass waypoint i takes:
\* "feasible", "recomputed" or "degraded"
backwardBranch(path, settings, current, next, i) ==
  LET maxSpeed == segmentMaxSpeed(path, settings, current, next, i)
      desiredFinalSpeed == FMin(current.maxJunctionSpeed, maxSpeed)
  IN  IF canReachTargetSpeed(current.position, desiredFinalSpeed,
                             next.position, next.finalSpeed, settings)
        THEN "feasible"
      ELSE IF FGe(desiredFinalSpeed, next.finalSpeed) THEN "recomputed"
      ELSE "degraded"

\* one iteration of the backward loop: the record pushed for waypoint i
\* (1-based), `next` being the record pushed last
backwardStep(path, settings, current, next, i) ==
  LET maxSpeed == segmentMaxSpeed(path, settings, current, next, i)
      desiredFinalSpeed == FMin(current.maxJunctionSpeed, maxSpeed)
      branch == backwardBranch(path, settings, current, next, i)
  IN  IF branch = "feasible"
        THEN junctionSpeedPoint(current.position, desiredFinalSpeed, maxSpeed)
      ELSE IF branch = "recomputed"
        THEN junctionSpeedPoint(
               current.position,
               calculateMaxSpeedToReachTargetSpeed(current.position,
                                                   next.position,
                                                   next.finalSpeed, settings),
               maxSpeed)
      ELSE junctionSpeedPoint(current.position, desiredFinalSpeed, maxSpeed)

Reverse(s) == [k \in 1..Len(s) |-> s[Len(s) + 1 - k]]

RECURSIVE backwardLoop(_, _, _, _, _)
backwardLoop(path, settings, maxJunctionSpeeds, acc, i) ==
  IF i < 1 THEN acc
  ELSE backwardLoop(path, settings, maxJunctionSpeeds,
                    Append(acc, backwardStep(path, settings,
                                             maxJunctionSpeeds[i],
                                             acc[Len(acc)], i)),
                    i - 1)

\* path is non-empty
calculateJunctionSpeeds(path, settings, start) ==
  LET maxJunctionSpeeds == calculateMaximumJunctionSpeeds(path, settings, start)
  IN  Reverse(backwardLoop(path, settings, maxJunctionSpeeds,
                           <<lastJunctionSpeedPoint(path, maxJunctionSpeeds)>>,
                           Len(maxJunctionSpeeds) - 1))

\* targetSpeed is kept with the record (the source only uses it for `time`):
\* it is the exit speed the sub-segment was planned with
speedPoint(start, target, speed, targetSpeed, acceleration, startTime) ==
  LET direction == VUnit(VSub(target, start))
      time == FDiv(FMul(Two, VMag(VSub(target, start))),
                   FAdd(speed, targetSpeed))
  IN  [start |-> start, target |-> target, direction |-> direction,
       speed |-> speed, acceleration |-> acceleration,
       time |-> FAdd(startTime, time), targetSpeed |-> targetSpeed]

planSegment(start, target, settings, startTime) ==
  LET startToTarget == VSub(target.position, start.position)
      directionToTarget == VUnit(startToTarget)
      accelerationToTarget ==
        maxForcePerDirection(settings.accelerationX, settings.accelerationY,
                             directionToTarget)
      speedToTarget == target.maxSpeed
      startToPoint2Distance ==
        FDiv(FSub(FMul(speedToTarget, speedToTarget),
                  FMul(start.speed, start.speed)),
             FMul(Two, accelerationToTarget))
      point3ToTargetDistance ==
        FDiv(FSub(FMul(target.finalSpeed, target.finalSpeed),
                  FMul(speedToTarget, speedToTarget)),
             FMul(Two, FNeg(accelerationToTarget)))
  IN  IF FLt(FAdd(startToPoint2Distance, point3ToTargetDistance),
             VMag(startToTarget))
        THEN
          LET point2Position ==
                VAdd(start.position,
                     VScale(directionToTarget, startToPoint2Distance))
              point3Position ==
                VSub(target.position,
                     VScale(directionToTarget, point3ToTargetDistance))
              point1 == speedPoint(start.position, point2Position, start.speed,
                                   speedToTarget, accelerationToTarget,
                                   startTime)
              point2 == speedPoint(point2Position, point3Position,
                                   speedToTarget, speedToTarget, 0, point1.time)
              point3 == speedPoint(point3Position, target.position,
                                   speedToTarget, target.finalSpeed,
                                   FNeg(accelerationToTarget), point2.time)
          IN  <<point1, point2, point3>>
      ELSE
        LET point2Speed ==
              FSqrt(FAdd(FMul(accelerationToTarget, VMag(startToTarget)),
                         FMul(Half,
                              FAdd(FMul(start.speed, start.speed),
                                   FMul(target.finalSpeed, target.finalSpeed)))))
            peakDistance ==
              FDiv(FSub(FMul(point2Speed, point2Speed),
                        FMul(start.speed, start.speed)),
                   FMul(Two, accelerationToTarget))
            point2Position ==
              VAdd(start.position, VScale(directionToTarget, peakDistance))
        IN  IF FGt(peakDistance, VMag(startToTarget)) \/ FLt(peakDistance, 0)
              THEN
                \* the source reads  a > b ? -1 : 1 * accelerationToTarget
                <<speedPoint(start.position, target.position, start.speed,
                             target.finalSpeed,
                             IF FGt(start.speed, target.finalSpeed)
                               THEN Num(0 - 1)
                               ELSE FMul(Num(1), accelerationToTarget),
                             startTime)>>
            ELSE
              LET point1 == speedPoint(start.position, point2Position,
                                       start.speed, point2Speed,
                                       accelerationToTarget, startTime)
                  point2 == speedPoint(point2Position, target.position,
                                       point2Speed, target.finalSpeed,
                                       FNeg(accelerationToTarget), point1.time)
              IN  <<point1, point2>>

\* planSegment: distance from the entry to the end of the acceleration ramp
startToPoint2Distance(start, target, settings) ==
  LET accelerationToTarget ==
        maxForcePerDirection(settings.accelerationX, settings.accelerationY,
                             VUnit(VSub(target.position, start.position)))
  IN  FDiv(FSub(FMul(target.maxSpeed, target.maxSpeed),
                FMul(start.speed, start.speed)),
           FMul(Two, accelerationToTarget))

\* planSegment: distance from the start of the braking ramp to the exit
point3ToTargetDistance(start, target, settings) ==
  LET accelerationToTarget ==
        maxForcePerDirection(settings.accelerationX, settings.accelerationY,
                             VUnit(VSub(target.position, start.position)))
  IN  FDiv(FSub(FMul(target.finalSpeed, target.finalSpeed),
                FMul(target.maxSpeed, target.maxSpeed)),
           FMul(Two, FNeg(accelerationToTarget)))

\* forEach of simulate over junctionSpeeds[k..], from the running state
RECURSIVE planLoop(_, _, _, _, _, _)
planLoop(junctionSpeeds, settings, result, start, startTime, k) ==
  IF k > Len(junctionSpeeds) THEN result
  ELSE LET junction == junctionSpeeds[k]
           segment == planSegment(start, junction, settings, startTime)
       IN  planLoop(junctionSpeeds, settings, result \o segment,
                    [position |-> junction.position,
                     speed |-> junction.finalSpeed],
                    segment[Len(segment)].time, k + 1)

\* path is non-empty (the source throws a TypeError on an empty path)
simulate(path, settings, startPosition) ==
  planLoop(calculateJunctionSpeeds(path, settings, startPosition), settings,
           <<>>, [position |-> startPosition, speed |-> 0], 0, 1)

timeEstimation(speedPoints) == speedPoints[Len(speedPoints)].time

\* Array.findIndex(p => p.time > time), 1-based; 0 when there is none
findIndex(profile, time) ==
  LET hits == {k \in 1..Len(profile) : FGt(profile[k].time, time)}
  IN  IF hits = {} THEN 0
      ELSE CHOOSE k \in hits : \A m \in hits : k <= m

getPositionFromTime(profile, time) ==
  LET currentPointIdx == findIndex(profile, time)
  IN  IF currentPointIdx >= 1
        THEN
          LET currentPoint == profile[currentPointIdx]
              startTime == IF currentPointIdx = 1 THEN 0
                           ELSE OrElse(profile[currentPointIdx - 1].time, 0)
              deltaTime == FSub(time, startTime)
              displacement ==
                FAdd(FMul(currentPoint.speed, deltaTime),
                     FMul(FMul(Half, currentPoint.acceleration),
                          FMul(deltaTime, deltaTime)))
          IN  VAdd(currentPoint.start,
                   VScale(currentPoint.direction, displacement))
      ELSE profile[Len(profile)].target

\* ---------------------------------------------------------------- inputs
\* waypoint positions: integer coordinates, two rows
Positions == {Vec(Num(x), Num(y)) : x \in 0..MaxX, y \in 0..1}

\* desired speeds a caller may ask for; 0 is not a valid one
DesiredSpeeds == {0, Num(1), Num(3)}

\* a path as the caller givePrediction builds it: a list of positions, each
\* with the same desired speed
MkPath(ps, speed) ==
  [n \in 1..Len(ps) |-> [position |-> ps[n], desiredSpeed |-> speed]]

\* the paths a caller may pass, the empty one included
Paths ==
  {MkPath(ps, speed) :
     ps \in UNION {[1..n -> Positions] : n \in 0..MaxPathLen},
     speed \in DesiredSpeeds}

\* the positions the tool may start from
StartPositions == {Vec(0, 0), Vec(Num(1), 0)}

MkSettings(vx, vy, ax, ay, mjs, jd) ==
  [maximumSpeedX |-> vx, maximumSpeedY |-> vy,
   accelerationX |-> ax, accelerationY |-> ay,
   minimumJunctionSpeed |-> mjs, junctionDeviation |-> jd]

\* the settings a caller may pass: two valid ones (isotropic; x slower and
\* weaker than y, with a minimum junction speed) and two with a zero limit
SettingsChoices ==
  { MkSettings(Num(5), Num(5), Num(1), Num(1), 0, Num(1)),
    MkSettings(Num(1), Num(5), Num(1), Num(4), Num(1), Num(1)),
    MkSettings(0, Num(5), Num(1), Num(1), 0, Num(1)),
    MkSettings(Num(5), Num(5), Num(1), 0, 0, Num(1)) }

\* the input contract: non-empty path, positive desired speeds and limits
ValidPath(p) == Len(p) >= 1 /\ \A n \in 1..Len(p) : p[n].desiredSpeed > 0
ValidSettings(s) ==
  /\ s.maximumSpeedX > 0 /\ s.maximumSpeedY > 0
  /\ s.accelerationX > 0 /\ s.accelerationY > 0
ValidInput(p, s) == ValidPath(p) /\ ValidSettings(s)

\* ---------------------------------------------------------- state machine
VARIABLES
  path,               \* argument of simulate
  settings,           \* argument of simulate
  startPosition,      \* argument of simulate
  pc,                 \* "simulate", "backward", "plan", "returned", "thrown"
  maxJunctionSpeeds,  \* calculateJunctionSpeeds: the per-corner maxima
  junctionSpeeds,     \* calculateJunctionSpeeds / simulate: the records
  i,                  \* backward loop index (1-based)
  result,             \* simulate: the profile built so far
  start,              \* simulate: entry of the next segment
  startTime,          \* simulate: running cumulative time
  k,                  \* simulate: forEach index (1-based)
  queried             \* last getPositionFromTime call: <<time, position>>

vars == <<path, settings, startPosition, pc, maxJunctionSpeeds, junctionSpeeds,
          i, result, start, startTime, k, queried>>

inputs == <<path, settings, startPosition>>

Init ==
  /\ path \in Paths
  /\ settings \in SettingsChoices
  /\ startPosition \in StartPositions
  /\ pc = "simulate"
  /\ maxJunctionSpeeds = <<>>
  /\ junctionSpeeds = <<>>
  /\ i = 0
  /\ result = <<>>
  /\ start = [position |-> startPosition, speed |-> 0]
  /\ startTime = 0
  /\ k = 0
  /\ queried = <<>>

\* simulate is entered and calls calculateJunctionSpeeds, which computes the
\* per-corner maxima and pushes the record of the last waypoint.  On an empty
\* path, path[path.length - 1] is undefined and reading .position throws.
EnterSimulate ==
  /\ pc = "simulate"
  /\ IF Len(path) = 0
       THEN /\ pc' = "thrown"
            /\ UNCHANGED <<maxJunctionSpeeds, junctionSpeeds, i>>
       ELSE /\ maxJunctionSpeeds' =
                 calculateMaximumJunctionSpeeds(path, settings, startPosition)
            /\ junctionSpeeds' =
                 <<lastJunctionSpeedPoint(path, maxJunctionSpeeds')>>
            /\ i' = Len(path) - 1
            /\ pc' = "backward"
  /\ UNCHANGED <<inputs, result, start, startTime, k, queried>>

\* one iteration of the backward loop of calculateJunctionSpeeds
BackwardPass ==
  /\ pc = "backward"
  /\ i >= 1
  /\ junctionSpeeds' =
       Append(junctionSpeeds,
              backwardStep(path, settings, maxJunctionSpeeds[i],
                           junctionSpeeds[Len(junctionSpeeds)], i))
  /\ i' = i - 1
  /\ UNCHANGED <<inputs, pc, maxJunctionSpeeds, result, start, startTime, k,
                 queried>>

\* calculateJunctionSpeeds returns the reversed records; simulate sets up
\* its loop state
ReturnJunctionSpeeds ==
  /\ pc = "backward"
  /\ i < 1
  /\ junctionSpeeds' = Reverse(junctionSpeeds)
  /\ result' = <<>>
  /\ start' = [position |-> startPosition, speed |-> 0]
  /\ startTime' = 0
  /\ k' = 1
  /\ pc' = "plan"
  /\ UNCHANGED <<inputs, maxJunctionSpeeds, i, queried>>

\* one iteration of simulate's forEach
PlanJunction ==
  /\ pc = "plan"
  /\ k <= Len(junctionSpeeds)
  /\ LET junction == junctionSpeeds[k]
         segment == planSegment(start, junction, settings, startTime)
     IN  /\ result' = result \o segment
         /\ start' = [position |-> junction.position,
                      speed |-> junction.finalSpeed]
         /\ startTime' = segment[Len(segment)].time
  /\ k' = k + 1
  /\ UNCHANGED <<inputs, pc, maxJunctionSpeeds, junctionSpeeds, i, queried>>

\* simulate returns the profile
ReturnProfile ==
  /\ pc = "plan"
  /\ k > Len(junctionSpeeds)
  /\ pc' = "returned"
  /\ UNCHANGED <<inputs, maxJunctionSpeeds, junctionSpeeds, i, result, start,
                 startTime, k, queried>>

\* the times a consumer samples the returned profile at: the beginning, the
\* end (timeEstimation) and one second past the end
QueryTimes ==
  LET total == timeEstimation(result)
  IN  {0, total, FAdd(total, Num(1))}

\* a consumer calls getPositionFromTime on the returned profile
QueryPosition ==
  /\ pc = "returned"
  /\ \E t \in QueryTimes : queried' = <<t, getPositionFromTime(result, t)>>
  /\ UNCHANGED <<inputs, pc, maxJunctionSpeeds, junctionSpeeds, i, result,
                 start, startTime, k>>

Next ==
  \/ EnterSimulate
  \/ BackwardPass
  \/ ReturnJunctionSpeeds
  \/ PlanJunction
  \/ ReturnProfile
  \/ QueryPosition

Spec == Init /\ [][Next]_vars

\* ------------------------------------------- planSegment on its own inputs
\* largest entry / exit speed handed to planSegment
MaxSegSpeed == 3

SegSpeeds == {Num(n) : n \in 0..MaxSegSpeed}

\* simulate's loop state at one call of planSegment: any entry (position and
\* speed) and any junction record (position, finalSpeed, maxSpeed) a distance
\* away, under valid settings. The segment is parallel to an axis: its length
\* and its projected acceleration are then whole fixed-point numbers, and the
\* comparisons of the peak distance with 0 and with the length come out as
\* they do on doubles
InitSeg ==
  /\ settings \in {s \in SettingsChoices : ValidSettings(s)}
  /\ \E p0 \in Positions, p1 \in Positions, v0 \in SegSpeeds,
        vf \in SegSpeeds, vc \in DesiredSpeeds \ {0} :
       /\ p0 # p1
       /\ (p0.x = p1.x \/ p0.y = p1.y)
       /\ start = [position |-> p0, speed |-> v0]
       /\ junctionSpeeds = <<junctionSpeedPoint(p1, vf, vc)>>
       /\ path = MkPath(<<p1>>, vc)
       /\ startPosition = p0
  /\ pc = "plan"
  /\ k = 1
  /\ startTime = 0
  /\ result = <<>>
  /\ maxJunctionSpeeds = <<>>
  /\ i = 0
  /\ queried = <<>>

NextSeg ==
  \/ PlanJunction
  \/ ReturnProfile

SpecSeg == InitSeg /\ [][NextSeg]_vars

\* ---------------------------------------------------------------- claims
\* slack granted to "up to epsilon" comparisons: 0.02, above the rounding of
\* the fixed-point operators
Tol == Scale \div 50

Valid == ValidInput(path, settings)

\* no segment of the path has zero length
NonDegenerate ==
  /\ Len(path) >= 1
  /\ path[1].position # startPosition
  /\ \A n \in 1..(Len(path) - 1) : path[n].position # path[n + 1].position
Returned == pc = "returned"
Planned == pc \in {"plan", "returned"}

\* every numeric field of a sub-segment is an ordinary number
FinitePoint(p) ==
  /\ IsFin(p.start.x) /\ IsFin(p.start.y)
  /\ IsFin(p.target.x) /\ IsFin(p.target.y)
  /\ IsFin(p.direction.x) /\ IsFin(p.direction.y)
  /\ IsFin(p.speed) /\ IsFin(p.acceleration) /\ IsFin(p.time)
  /\ IsFin(p.targetSpeed)

\* a sub-segment keeps both axes within the speed and acceleration limits
WithinAxisLimits(p, s) ==
  /\ FAbs(FMul(p.speed, p.direction.x)) <= s.maximumSpeedX + Tol
  /\ FAbs(FMul(p.speed, p.direction.y)) <= s.maximumSpeedY + Tol
  /\ FAbs(FMul(p.acceleration, p.direction.x)) <= s.accelerationX + Tol
  /\ FAbs(FMul(p.acceleration, p.direction.y)) <= s.accelerationY + Tol

\* C1: for a valid input, every sub-segment of the returned profile keeps
\* |speed * direction| within maximumSpeedX / maximumSpeedY and
\* |acceleration * direction| within accelerationX / accelerationY (stated
\* for paths without zero-length segments)
C1_AxisLimitCompliance ==
  (Returned /\ Valid /\ NonDegenerate) =>
    \A n \in 1..Len(result) : WithinAxisLimits(result[n], settings)

\* C2: for a valid input, once calculateJunctionSpeeds has returned, every
\* junction record has 0 <= finalSpeed <= maxSpeed and finalSpeed <= the
\* per-corner maximum junction speed of its waypoint, and the last record
\* has finalSpeed = 0 (stated for paths without zero-length segments)
C2_JunctionSpeedBounds ==
  (Planned /\ Valid /\ NonDegenerate) =>
    /\ junctionSpeeds[Len(junctionSpeeds)].finalSpeed = 0
    /\ \A n \in 1..Len(junctionSpeeds) :
         /\ junctionSpeeds[n].finalSpeed >= 0
         /\ junctionSpeeds[n].finalSpeed <= junctionSpeeds[n].maxSpeed + Tol
         /\ junctionSpeeds[n].finalSpeed
              <= maxJunctionSpeeds[n].maxJunctionSpeed + Tol

\* C3: for a valid input, the returned profile starts at rest at the start
\* position and ends at the last waypoint with a planned exit speed of 0
C3_StartsAndEndsAtRest ==
  (Returned /\ Valid) =>
    /\ result[1].start = startPosition
    /\ result[1].speed = 0
    /\ result[Len(result)].target = path[Len(path)].position
    /\ result[Len(result)].targetSpeed = 0

\* C3 witness: a profile returned for a valid path of three distinct
\* waypoints away from the start, ending in more than one sub-segment
C3_Witness ==
  /\ Returned /\ Valid
  /\ Len(path) = 3
  /\ path[1].position # startPosition
  /\ path[2].position # path[1].position
  /\ path[3].position # path[2].position
  /\ Len(result) >= 4
  /\ \A n \in 1..Len(result) : FinitePoint(result[n])

\* C4: for a valid input, the cumulative times of the returned profile are
\* ordinary numbers, the first is >= 0 and they never decrease
C4_MonotoneTime ==
  (Returned /\ Valid) =>
    /\ \A n \in 1..Len(result) : IsFin(result[n].time)
    /\ result[1].time >= 0
    /\ \A n \in 1..(Len(result) - 1) : result[n].time <= result[n + 1].time

\* m lies on the straight line from s to b, strictly between the two
StrictlyBetween(s, m, b) ==
  /\ (m.x - s.x) * (b.y - s.y) = (m.y - s.y) * (b.x - s.x)
  /\ (m.x - s.x) * (b.x - m.x) + (m.y - s.y) * (b.y - m.y) > 0

\* C5: for a valid two-waypoint path [M, B] with M strictly between the start
\* and B on one line, the total time equals that of the path [B] up to the
\* tolerance, and the tool does not stop at M
C5_SubdivisionKeepsTime ==
  (Returned /\ Valid /\ Len(path) = 2
     /\ StrictlyBetween(startPosition, path[1].position, path[2].position)) =>
    /\ FAbs(FSub(timeEstimation(result),
                 timeEstimation(simulate(<<path[2]>>, settings,
                                         startPosition)))) <= Tol
    /\ junctionSpeeds[1].finalSpeed > 0

\* C6: a zero-length segment adds no sub-segment: planSegment returns no
\* SpeedPoint when entry and exit position coincide, and a valid path whose
\* first two waypoints coincide yields the profile of the path without the
\* duplicate
C6_ZeroLengthSegmentDropped ==
  /\ (Valid /\ pc = "plan" /\ k <= Len(junctionSpeeds)
        /\ start.position = junctionSpeeds[k].position) =>
       planSegment(start, junctionSpeeds[k], settings, startTime) = <<>>
  /\ (Returned /\ Valid /\ Len(path) >= 2
        /\ path[1].position = path[2].position) =>
       result = simulate(Tail(path), settings, startPosition)

\* C7: on the profile returned for a valid input, getPositionFromTime at
\* time 0 is the start position, and at timeEstimation(profile) or any later
\* time it is the target of the last sub-segment
C7_PositionRoundTrip ==
  (Returned /\ Valid /\ queried # <<>>) =>
    /\ queried[1] = 0 => queried[2] = startPosition
    /\ (queried[1] = timeEstimation(result)
          \/ FGe(queried[1], timeEstimation(result))) =>
         queried[2] = result[Len(result)].target

\* C8: an invalid input (empty path, non-positive desired speed, non-positive
\* axis limit) is rejected before planning: nothing is thrown, and no
\* junction speed and no sub-segment is computed
C8_InvalidInputRejected ==
  ~Valid =>
    /\ pc \in {"simulate", "rejected"}
    /\ maxJunctionSpeeds = <<>>
    /\ junctionSpeeds = <<>>
    /\ result = <<>>

\* distance covered by sub-segment n of a profile under its own speed,
\* acceleration and duration
Displacement(profile, n) ==
  LET deltaTime == FSub(profile[n].time,
                        IF n = 1 THEN 0 ELSE profile[n - 1].time)
  IN  FAdd(FMul(profile[n].speed, deltaTime),
           FMul(FMul(Half, profile[n].acceleration),
                FMul(deltaTime, deltaTime)))

\* C9: every sub-segment of the profile returned for a valid input is
\* kinematically consistent: speed * dt + acceleration * dt^2 / 2 equals the
\* distance from its start to its target, up to the tolerance (stated for
\* paths without zero-length segments)
C9_KinematicConsistency ==
  (Returned /\ Valid /\ NonDegenerate) =>
    \A n \in 1..Len(result) :
      FAbs(FSub(Displacement(result, n),
                VMag(VSub(result[n].target, result[n].start)))) <= 5 * Tol

\* C10: when planSegment, called on a segment of non-zero length under valid
\* settings, emits a single SpeedPoint (the peak falls outside the segment),
\* its entry speed is v0 and its acceleration is +a for v0 <= vf and -a for
\* v0 > vf, a being the acceleration limit projected on the segment direction
C10_SinglePointAcceleration ==
  (Valid /\ NonDegenerate /\ pc = "plan" /\ k <= Len(junctionSpeeds)) =>
    LET target == junctionSpeeds[k]
        segment == planSegment(start, target, settings, startTime)
        a == maxForcePerDirection(
               settings.accelerationX, settings.accelerationY,
               VUnit(VSub(target.position, start.position)))
    IN  Len(segment) = 1 =>
          /\ segment[1].speed = start.speed
          /\ segment[1].acceleration =
               IF start.speed <= target.finalSpeed THEN a ELSE 0 - a

\* a sub-segment that covers a distance and changes or keeps its speed as
\* its acceleration says
ForwardPoint(p, direction) ==
  VMag(VSub(p.target, p.start)) > Tol =>
    /\ FAbs(FSub(p.direction.x, direction.x)) <= Tol
    /\ FAbs(FSub(p.direction.y, direction.y)) <= Tol
    /\ (FAbs(FSub(p.targetSpeed, p.speed)) > Tol \/ p.acceleration = 0) =>
         Sgn(p.acceleration) = Sgn(FSub(p.targetSpeed, p.speed))

\* C11: the tool never moves backwards along a segment. At every call of
\* planSegment made by simulate on a valid input (paths without zero-length
\* segments), the entry speed does not exceed the cruise speed; in the
\* trapezoid both ramp distances are >= 0 and their sum is <= the length of
\* the segment; the sub-segments are chained from the entry to the exit;
\* and every sub-segment of non-zero length points along unit(exit - entry)
\* with an acceleration whose sign is that of (exit speed - entry speed)
C11_NeverMovesBackwards ==
  (Valid /\ NonDegenerate /\ pc = "plan" /\ k <= Len(junctionSpeeds)) =>
    LET target == junctionSpeeds[k]
        segment == planSegment(start, target, settings, startTime)
        startToTarget == VSub(target.position, start.position)
        d1 == startToPoint2Distance(start, target, settings)
        d3 == point3ToTargetDistance(start, target, settings)
    IN  /\ start.speed <= target.maxSpeed + Tol
        /\ Len(segment) = 3 =>
             /\ d1 >= 0 - Tol
             /\ d3 >= 0 - Tol
             /\ FAdd(d1, d3) <= VMag(startToTarget) + Tol
        /\ segment[1].start = start.position
        /\ segment[Len(segment)].target = target.position
        /\ \A n \in 1..(Len(segment) - 1) :
             segment[n + 1].start = segment[n].target
        /\ \A n \in 1..Len(segment) :
             ForwardPoint(segment[n], VUnit(startToTarget))

====
